---- MODULE Spec2Model ----
(***************************************************************************)
(* openapi-authz: the policy resolver (internal/parser), the data model    *)
(* (internal/model), the command line tool (cmd/openapi-authz), the        *)
(* serializer (internal/generator) and the policy middleware of the README *)
(* and the e2e test, as state machines.                                    *)
(*                                                                         *)
(* Strings are TLA+ strings; Len and SubSeq apply to them as to Go's byte  *)
(* strings.  A Go slice that may be nil is a record [isNil, items]; a Go   *)
(* map is a TLA+ function, and the random order of a range over a map is   *)
(* an explicit visiting order chosen by the action that ranges.            *)
(***************************************************************************)
EXTENDS Integers, Sequences, FiniteSets, TLC

VARIABLES
    dRoot, dOp, dRes,                         \* one call of derivePolicy
    file, root, pathsLeft, curPath, opsLeft,  \* ParseConfig: the file, the loop
    policies, ret,                            \* ParseConfig: the map, the return
    flags, pc, calls, stderr, exitCode, outFile,  \* main
    gCfg, gPkg, gOut,                         \* Generate
    mwPolicies, request, response             \* AuthPolicyMiddleware

dVars == <<dRoot, dOp, dRes>>
pVars == <<file, root, pathsLeft, curPath, opsLeft, policies, ret>>
cVars == <<flags, pc, calls, stderr, exitCode, outFile>>
gVars == <<gCfg, gPkg, gOut>>
mVars == <<mwPolicies, request, response>>
vars == <<dVars, pVars, cVars, gVars, mVars>>

(***************************************************************************)
(* Bounds of the model.                                                    *)
(***************************************************************************)
\* requirement objects in one security list
MaxReqs == 2
\* tokens in one BearerAuth token list
MaxTokens == 2
\* operations one document declares
MaxOps == 2
\* keys of a Config handed to Generate directly
MaxKeys == 3
\* roles, and scopes, in one policy or one set of claims of the middleware
MaxItems == 2

None == [isNone |-> TRUE]

(***************************************************************************)
(* Helpers on sequences and sets.                                          *)
(***************************************************************************)
SeqsUpTo(S, n) == UNION {[1..k -> S] : k \in 0..n}

Range(s) == {s[i] : i \in 1..Len(s)}

\* every order in which a range over a Go map with key set S can visit it
Perms(S) ==
    {p \in [1..Cardinality(S) -> S] : \A i, j \in 1..Cardinality(S) : p[i] = p[j] => i = j}

(***************************************************************************)
(* internal/model                                                          *)
(***************************************************************************)
RouteKey(method, path) == [Method |-> method, Path |-> path]

AuthPolicy(requireAuth, roles, scopes) ==
    [RequireAuth |-> requireAuth, Roles |-> roles, Scopes |-> scopes]

\* model.AuthPolicy{RequireAuth: false}, also the zero value model.AuthPolicy{}
PublicPolicy == AuthPolicy(FALSE, <<>>, <<>>)

(***************************************************************************)
(* internal/parser: the document                                           *)
(***************************************************************************)
\* a nil []securityRequirement: the security key is missing or null
NilSec == [isNil |-> TRUE, items |-> <<>>]

\* a non-nil []securityRequirement; yaml.v3 decodes `security: []` to it
SecOf(items) == [isNil |-> FALSE, items |-> items]

BearerAuth == "BearerAuth"
OtherScheme == "ApiKeyAuth"

RolePrefix == "role:"
RolePrefixLen == 5

\* the *operation of a method the path item does not declare
NilOp == [isNil |-> TRUE, Security |-> NilSec]

Operation(sec) == [isNil |-> FALSE, Security |-> sec]

(***************************************************************************)
(* internal/parser: derivePolicy                                           *)
(***************************************************************************)
\* faulty variant: the root list takes precedence over the operation's
EffectiveSec_RootFirst(rootSec, opSec) ==
    IF rootSec.isNil THEN opSec ELSE rootSec

\* faulty variant: len(sec) == 0 instead of sec == nil, so `security: []` inherits
EffectiveSec_EmptyInherits(rootSec, opSec) ==
    IF Len(opSec.items) = 0 THEN rootSec ELSE opSec

\* sec := op.Security; if sec == nil { sec = root.Security }
EffectiveSec(rootSec, opSec) ==
    IF opSec.isNil THEN rootSec ELSE opSec

\* faulty variant: strings.HasPrefix(s, "role:"), which takes the bare prefix too
IsRoleToken_NoLengthGuard(s) ==
    Len(s) >= RolePrefixLen /\ SubSeq(s, 1, RolePrefixLen) = RolePrefix

\* the condition of the role branch: len(s) > 5 && s[:5] == "role:"
IsRoleToken(s) ==
    Len(s) > RolePrefixLen /\ SubSeq(s, 1, RolePrefixLen) = RolePrefix

\* one pass of `for _, s := range scopes` from index i on
RECURSIVE ClassifyTokens(_, _, _)
ClassifyTokens(scopes, i, policy) ==
    IF i > Len(scopes) THEN policy
    ELSE LET s == scopes[i] IN
         IF IsRoleToken(s)
         THEN ClassifyTokens(scopes, i + 1,
                  [policy EXCEPT !.Roles = Append(@, SubSeq(s, RolePrefixLen + 1, Len(s)))])
         ELSE ClassifyTokens(scopes, i + 1,
                  [policy EXCEPT !.Scopes = Append(@, s)])

\* faulty variant: policy.RequireAuth = true is left out
RECURSIVE ScanSchemes_KeepRequireAuth(_, _, _, _)
ScanSchemes_KeepRequireAuth(req, order, j, policy) ==
    IF j > Len(order) THEN [returned |-> FALSE, policy |-> policy]
    ELSE IF order[j] = BearerAuth
         THEN [returned |-> TRUE, policy |-> ClassifyTokens(req[order[j]], 1, policy)]
         ELSE ScanSchemes_KeepRequireAuth(req, order, j + 1, policy)

\* faulty variant: the tokens of every scheme visited are classified, and the
\* function returns at BearerAuth
RECURSIVE ScanSchemes_ClassifyEveryScheme(_, _, _, _)
ScanSchemes_ClassifyEveryScheme(req, order, j, policy) ==
    IF j > Len(order) THEN [returned |-> FALSE, policy |-> policy]
    ELSE LET seen == ClassifyTokens(req[order[j]], 1, policy) IN
         IF order[j] = BearerAuth
         THEN [returned |-> TRUE, policy |-> [seen EXCEPT !.RequireAuth = TRUE]]
         ELSE ScanSchemes_ClassifyEveryScheme(req, order, j + 1, seen)

\* `for scheme, scopes := range req`, visiting the scheme names in `order`,
\* from position j on: whether the function returned, and the policy then
RECURSIVE ScanSchemes(_, _, _, _)
ScanSchemes(req, order, j, policy) ==
    IF j > Len(order) THEN [returned |-> FALSE, policy |-> policy]
    ELSE IF order[j] = BearerAuth
         THEN [returned |-> TRUE,
               policy |-> ClassifyTokens(req[order[j]], 1, [policy EXCEPT !.RequireAuth = TRUE])]
         ELSE ScanSchemes(req, order, j + 1, policy)

NoBearerError == "security section present but no BearerAuth requirement found"

\* faulty variant: without a BearerAuth entry the policy so far is returned
RECURSIVE ScanReqs_FallbackPublic(_, _, _, _)
ScanReqs_FallbackPublic(items, ord, i, policy) ==
    IF i > Len(items) THEN [policy |-> policy, err |-> ""]
    ELSE LET scan == ScanSchemes(items[i], ord[i], 1, policy) IN
         IF scan.returned THEN [policy |-> scan.policy, err |-> ""]
         ELSE ScanReqs_FallbackPublic(items, ord, i + 1, scan.policy)

\* `for _, req := range sec` from index i on, then the error return
RECURSIVE ScanReqs(_, _, _, _)
ScanReqs(items, ord, i, policy) ==
    IF i > Len(items) THEN [policy |-> AuthPolicy(FALSE, <<>>, <<>>), err |-> NoBearerError]
    ELSE LET scan == ScanSchemes(items[i], ord[i], 1, policy) IN
         IF scan.returned THEN [policy |-> scan.policy, err |-> ""]
         ELSE ScanReqs(items, ord, i + 1, scan.policy)

\* the orders in which the scheme names of each requirement object of a
\* security list can be visited
Orders(sec) == [1..Len(sec.items) -> UNION {Perms(DOMAIN r) : r \in Range(sec.items)}]

VisitOrders(sec) ==
    {ord \in Orders(sec) : \A i \in 1..Len(sec.items) : Range(ord[i]) = DOMAIN sec.items[i]}

\* derivePolicy(root, op) under the visiting orders ord; err = "" is nil
derivePolicy(rootSec, opSec, ord) ==
    LET sec == EffectiveSec(rootSec, opSec) IN
    IF ~sec.isNil /\ Len(sec.items) = 0 THEN [policy |-> AuthPolicy(FALSE, <<>>, <<>>), err |-> ""]
    ELSE IF sec.isNil THEN [policy |-> AuthPolicy(FALSE, <<>>, <<>>), err |-> ""]
    ELSE ScanReqs(sec.items, ord, 1, AuthPolicy(FALSE, <<>>, <<>>))

\* every result derivePolicy can return for these inputs
DeriveResults(rootSec, opSec) ==
    {derivePolicy(rootSec, opSec, ord) : ord \in VisitOrders(EffectiveSec(rootSec, opSec))}

(***************************************************************************)
(* Inputs of derivePolicy: security lists of at most MaxReqs requirement   *)
(* objects, for the root and the operation, and for the operation also    *)
(* the single-requirement lists over every token list of at most          *)
(* MaxTokens tokens.                                                       *)
(***************************************************************************)
\* a role token, the bare prefix, a long scope token, a token shorter than the prefix
Tokens == {"role:admin", "role:", "vegetable:write", "w"}

TokLists == SeqsUpTo(Tokens, MaxTokens)

ShapeLists == {<<>>, <<"role:admin", "w">>}

OtherLists == {<<"role:other", "x">>}

\* a securityRequirement: a map from the scheme names it names to token lists
Requirement(hasBearer, bearer, hasOther, other) ==
    [s \in (IF hasBearer THEN {BearerAuth} ELSE {}) \cup (IF hasOther THEN {OtherScheme} ELSE {})
        |-> IF s = BearerAuth THEN bearer ELSE other]

RequirementsOver(lists) ==
    {Requirement(hb, b, ho, o) : hb \in BOOLEAN, b \in lists, ho \in BOOLEAN, o \in OtherLists}

ShapeSecLists ==
    {NilSec} \cup {SecOf(items) : items \in SeqsUpTo(RequirementsOver(ShapeLists), MaxReqs)}

SecLists == ShapeSecLists \cup {SecOf(<<r>>) : r \in RequirementsOver(TokLists)}

InitDerive ==
    /\ dRoot \in ShapeSecLists
    /\ dOp \in SecLists
    /\ dRes = None

\* policy, err := derivePolicy(&root, op)
Derive ==
    /\ dRes = None
    /\ dRes' \in DeriveResults(dRoot, dOp)
    /\ UNCHANGED <<dRoot, dOp>>

(***************************************************************************)
(* internal/parser: ParseConfig                                            *)
(***************************************************************************)
\* the yaml keys of pathItem's fields
YamlMethods == {"get", "post", "put", "delete", "patch", "options", "head"}

\* a nil *pathItem: the path's value is null
NilItem == [isNil |-> TRUE, ops |-> [m \in YamlMethods |-> NilOp]]

PathItem(ops) == [isNil |-> FALSE, ops |-> ops]

\* an openapiRoot with nothing decoded into it
EmptyRoot == [Security |-> NilSec, Paths |-> <<>>]

\* faulty variant: ops["POST"] = p.Put
Operations_PutAsPost(p) ==
    LET ops == [GET |-> p.ops.get, POST |-> p.ops.post, DELETE |-> p.ops.delete,
                PATCH |-> p.ops.patch, OPTIONS |-> p.ops.options, HEAD |-> p.ops.head]
        post == IF ~p.ops.put.isNil THEN p.ops.put ELSE p.ops.post
        all == [ops EXCEPT !.POST = post]
    IN  [m \in {n \in DOMAIN all : ~all[n].isNil} |-> all[m]]

\* (p *pathItem) Operations(): method (uppercase) -> operation, of the non-nil fields
Operations(p) ==
    LET all == [GET |-> p.ops.get, POST |-> p.ops.post, PUT |-> p.ops.put,
                DELETE |-> p.ops.delete, PATCH |-> p.ops.patch,
                OPTIONS |-> p.ops.options, HEAD |-> p.ops.head]
    IN  [m \in {n \in DOMAIN all : ~all[n].isNil} |-> all[m]]

\* a nil *model.Config
NilConfig == [isNil |-> TRUE, Policies |-> <<>>]

\* &model.Config{Policies: policies}
Config(pols) == [isNil |-> FALSE, Policies |-> pols]

\* a nil error
NoError == [msg |-> "", method |-> "", path |-> "", cause |-> ""]

\* fmt.Errorf("read spec: %w", err), fmt.Errorf("unmarshal spec: %w", err)
WrapError(msg, cause) == [msg |-> msg, method |-> "", path |-> "", cause |-> cause]

\* fmt.Errorf("derive policy for %s %s: %w", method, rawPath, err)
DeriveError(method, rawPath, cause) ==
    [msg |-> "derive policy for", method |-> method, path |-> rawPath, cause |-> cause]

\* ParseConfig before its first statement, inside its loop, after its return
Running(status) == [status |-> status, cfg |-> NilConfig, err |-> NoError]

\* return nil, err
ReturnError(err) == [status |-> "err", cfg |-> NilConfig, err |-> err]

\* return &model.Config{Policies: policies}, nil
ReturnConfig(pols) == [status |-> "ok", cfg |-> Config(pols), err |-> NoError]

\* policies[key] = policy
MapSet(m, key, value) == [k \in DOMAIN m \cup {key} |-> IF k = key THEN value ELSE m[k]]

\* os.ReadFile and yaml.Unmarshal, then policies := make(map...)
ReadAndUnmarshal ==
    /\ ret.status = "start"
    /\ IF ~file.readable
       THEN /\ ret' = ReturnError(WrapError("read spec", "no such file"))
            /\ UNCHANGED <<root, policies, pathsLeft>>
       ELSE IF ~file.wellFormed
       THEN /\ ret' = ReturnError(WrapError("unmarshal spec", "yaml error"))
            /\ UNCHANGED <<root, policies, pathsLeft>>
       ELSE /\ root' = file.root
            /\ policies' = <<>>
            /\ pathsLeft' = DOMAIN file.root.Paths
            /\ ret' = Running("loop")
    /\ UNCHANGED <<file, curPath, opsLeft>>

\* one step of `for rawPath, item := range root.Paths`, any path not yet visited
NextPath ==
    /\ ret.status = "loop"
    /\ opsLeft = {}
    /\ \E rawPath \in pathsLeft :
         LET item == root.Paths[rawPath] IN
         /\ pathsLeft' = pathsLeft \ {rawPath}
         /\ curPath' = rawPath
         /\ opsLeft' = IF item.isNil THEN {} ELSE DOMAIN Operations(item)
    /\ UNCHANGED <<file, root, policies, ret>>

\* faulty variant: an operation that fails to resolve is skipped
VisitResult_SkipFailed(pols, method, rawPath, r) ==
    IF r.err # ""
    THEN [ret |-> Running("loop"), policies |-> pols]
    ELSE [ret |-> Running("loop"), policies |-> MapSet(pols, RouteKey(method, rawPath), r.policy)]

\* the body of `for method, op := range item.Operations()` for one derived
\* result r: the return value and the map after it
VisitResult(pols, method, rawPath, r) ==
    IF r.err # ""
    THEN [ret |-> ReturnError(DeriveError(method, rawPath, r.err)), policies |-> pols]
    ELSE [ret |-> Running("loop"), policies |-> MapSet(pols, RouteKey(method, rawPath), r.policy)]

\* one step of `for method, op := range item.Operations()`, any method not yet visited
VisitOp ==
    /\ ret.status = "loop"
    /\ \E method \in opsLeft :
         LET op == Operations(root.Paths[curPath])[method] IN
         /\ opsLeft' = opsLeft \ {method}
         /\ IF op.isNil
            THEN UNCHANGED <<policies, ret>>
            ELSE \E r \in DeriveResults(root.Security, op.Security) :
                   LET v == VisitResult(policies, method, curPath, r) IN
                   /\ ret' = v.ret
                   /\ policies' = v.policies
    /\ UNCHANGED <<file, root, pathsLeft, curPath>>

\* both loops are over: return &model.Config{Policies: policies}, nil
ParseReturn ==
    /\ ret.status = "loop"
    /\ opsLeft = {}
    /\ pathsLeft = {}
    /\ ret' = ReturnConfig(policies)
    /\ UNCHANGED <<file, root, pathsLeft, curPath, opsLeft, policies>>

(***************************************************************************)
(* Inputs of ParseConfig: the file at the path is unreadable, or is not    *)
(* YAML, or is a document that declares at most MaxOps operations on the   *)
(* paths of PathNames; a path without operations is missing, null or an   *)
(* empty path item.                                                        *)
(***************************************************************************)
PathNames == {"/a", "/b"}

BearerSec == SecOf(<<Requirement(TRUE, <<"role:admin", "w">>, FALSE, <<>>)>>)

NoBearerSec == SecOf(<<Requirement(FALSE, <<>>, TRUE, <<"role:other">>)>>)

DocRootSecs == {NilSec, SecOf(<<Requirement(TRUE, <<>>, TRUE, <<>>)>>), NoBearerSec}

DocOpSecs == {NilSec, BearerSec, NoBearerSec}

Slots == PathNames \X YamlMethods

SlotSets == {S \in SUBSET Slots : Cardinality(S) <= MaxOps}

PathsOf(S) == {slot[1] : slot \in S}

\* the document with root security rs, the operations of S with the security
\* lists f, and the paths without operations as e says
Document(rs, S, f, e) ==
    [Security |-> rs,
     Paths |-> [p \in PathsOf(S) \cup {q \in DOMAIN e : e[q] # "missing"} |->
                   IF p \notin PathsOf(S) /\ e[p] = "null" THEN NilItem
                   ELSE PathItem([m \in YamlMethods |->
                            IF <<p, m>> \in S THEN Operation(f[<<p, m>>]) ELSE NilOp])]]

FileOf(doc) == [readable |-> TRUE, wellFormed |-> TRUE, root |-> doc]

Unreadable == [readable |-> FALSE, wellFormed |-> FALSE, root |-> EmptyRoot]

Malformed == [readable |-> TRUE, wellFormed |-> FALSE, root |-> EmptyRoot]

(***************************************************************************)
(* internal/generator: Generate.  Its source is not among the files; it is *)
(* modelled from the specification (4.2, 6) and the README's sample of the *)
(* generated file.  The output is the sequence of the file's lines.        *)
(***************************************************************************)
\* the characters the model's strings use, in byte order
AsciiOrder == "-/0123456789:ABCDEFGHIJKLMNOPQRSTUVWXYZ_abcdefghijklmnopqrstuvwxyz{}"

ByteRank(c) == CHOOSE i \in 1..Len(AsciiOrder) : SubSeq(AsciiOrder, i, i) = c

\* Go's a < b on strings: bytewise lexicographic
RECURSIVE StrLess(_, _)
StrLess(a, b) ==
    IF Len(b) = 0 THEN FALSE
    ELSE IF Len(a) = 0 THEN TRUE
    ELSE IF SubSeq(a, 1, 1) = SubSeq(b, 1, 1)
         THEN StrLess(SubSeq(a, 2, Len(a)), SubSeq(b, 2, Len(b)))
         ELSE ByteRank(SubSeq(a, 1, 1)) < ByteRank(SubSeq(b, 1, 1))

\* faulty variant: path, then method
KeyLess_PathFirst(a, b) ==
    StrLess(a.Path, b.Path) \/ (a.Path = b.Path /\ StrLess(a.Method, b.Method))

\* the order of the emitted entries: method, then path
KeyLess(a, b) ==
    StrLess(a.Method, b.Method) \/ (a.Method = b.Method /\ StrLess(a.Path, b.Path))

\* insert key k into the sorted sequence ks
RECURSIVE InsertKey(_, _)
InsertKey(ks, k) ==
    IF ks = <<>> THEN <<k>>
    ELSE IF KeyLess(k, Head(ks)) THEN <<k>> \o ks
    ELSE <<Head(ks)>> \o InsertKey(Tail(ks), k)

\* faulty variant: the keys are emitted in the map's iteration order
SortKeys_Unsorted(order) == order

\* the keys, met in the map's iteration order `order`, sorted
RECURSIVE SortKeys(_)
SortKeys(order) ==
    IF order = <<>> THEN <<>>
    ELSE InsertKey(SortKeys(Tail(order)), Head(order))

Letters == {SubSeq(AsciiOrder, i, i) : i \in 14..39} \cup {SubSeq(AsciiOrder, i, i) : i \in 40..66}

Digits == {SubSeq(AsciiOrder, i, i) : i \in 3..12}

\* the namespace identifier can be used as a package name
ValidIdent(pkg) ==
    /\ Len(pkg) > 0
    /\ SubSeq(pkg, 1, 1) \in Letters
    /\ \A i \in 1..Len(pkg) : SubSeq(pkg, i, i) \in Letters \cup Digits

\* a string as a source literal (the model's strings need no escapes)
Quote(str) == "\"" \o str \o "\""

RECURSIVE JoinQuoted(_)
JoinQuoted(list) ==
    IF Len(list) = 0 THEN ""
    ELSE IF Len(list) = 1 THEN Quote(list[1])
    ELSE Quote(list[1]) \o ", " \o JoinQuoted(Tail(list))

\* roles and scopes are rendered only when non-empty
RenderPolicy(p) ==
    "{RequireAuth: " \o (IF p.RequireAuth THEN "true" ELSE "false")
    \o (IF Len(p.Roles) > 0 THEN ", Roles: []string{" \o JoinQuoted(p.Roles) \o "}" ELSE "")
    \o (IF Len(p.Scopes) > 0 THEN ", Scopes: []string{" \o JoinQuoted(p.Scopes) \o "}" ELSE "")
    \o "},"

RenderEntry(k, p) ==
    "{Method: " \o Quote(k.Method) \o ", Path: " \o Quote(k.Path) \o "}: " \o RenderPolicy(p)

FileHeader(pkg) ==
    <<"package " \o pkg,
      "type RouteKey struct {", "Method string", "Path string", "}",
      "type AuthPolicy struct {", "RequireAuth bool", "Roles []string", "Scopes []string", "}",
      "var Policies = map[RouteKey]AuthPolicy{">>

FileFooter == <<"}">>

RenderEntries(cfg, ks) == [i \in 1..Len(ks) |-> RenderEntry(ks[i], cfg.Policies[ks[i]])]

\* Generate(pkg, cfg) when ranging over cfg.Policies meets the keys in `order`
Generate(pkg, cfg, order) ==
    IF ~ValidIdent(pkg)
    THEN [code |-> <<>>, err |-> "invalid package name"]
    ELSE [code |-> FileHeader(pkg) \o RenderEntries(cfg, SortKeys(order)) \o FileFooter,
          err |-> ""]

\* code, err := Generate(pkg, cfg), called any number of times on one Config
GenerateCall ==
    /\ \E order \in Perms(DOMAIN gCfg.Policies) : gOut' = Generate(gPkg, gCfg, order)
    /\ UNCHANGED <<gCfg, gPkg>>

(***************************************************************************)
(* Inputs of Generate: a package name and a Config of at most MaxKeys keys *)
(* built in memory, as the golden file test builds one.                    *)
(***************************************************************************)
GenMethods == {"DELETE", "POST", "PUT"}

GenPaths == {"/a", "/a/b", "/b"}

GenKeys == {RouteKey(m, p) : m \in GenMethods, p \in GenPaths}

GenPolicies == {AuthPolicy(FALSE, <<>>, <<>>), AuthPolicy(TRUE, <<"admin">>, <<"vegetable:write", "w">>)}

GenConfigs ==
    UNION {{Config(pols) : pols \in [K -> GenPolicies]} :
           K \in {S \in SUBSET GenKeys : Cardinality(S) <= MaxKeys}}

PkgNames == {"httproutes", "", "http-routes"}

InitGenerate ==
    /\ gCfg \in GenConfigs
    /\ gPkg \in PkgNames
    /\ gOut = None

(***************************************************************************)
(* cmd/openapi-authz: main.  calls is the log of the calls main has made.  *)
(***************************************************************************)
\* the process is still running
NotExited == [exited |-> FALSE, status |-> 0]

\* os.Exit(status), or the return from main with status 0
Exited(status) == [exited |-> TRUE, status |-> status]

\* no file at the -out path
NoFile == [exists |-> FALSE, content |-> <<>>]

FileWith(content) == [exists |-> TRUE, content |-> content]

\* faulty variant: && for ||
UsageError_BothMissing(f) == f.in = "" /\ f.out = ""

\* if *in == "" || *out == "" { ...; os.Exit(1) }
UsageError(f) == f.in = "" \/ f.out = ""

\* flag.Parse and the check of -in and -out; then the call of ParseConfig
FlagCheck ==
    /\ pc = "start"
    /\ IF UsageError(flags)
       THEN /\ stderr' = Append(stderr, "-in and -out are required")
            /\ exitCode' = Exited(1)
            /\ pc' = "exited"
            /\ UNCHANGED <<calls, ret>>
       ELSE /\ calls' = Append(calls, "ParseConfig")
            /\ ret' = Running("start")
            /\ pc' = "parse"
            /\ UNCHANGED <<stderr, exitCode>>
    /\ UNCHANGED <<flags, outFile, file, root, pathsLeft, curPath, opsLeft, policies>>
    /\ UNCHANGED <<dVars, gVars, mVars>>

\* cfg, err := parser.ParseConfig(*in) has returned
ParseDone ==
    /\ pc = "parse"
    /\ ret.status \in {"ok", "err"}
    /\ IF ret.status = "err"
       THEN /\ stderr' = Append(stderr, "parse spec: " \o ret.err.msg)
            /\ exitCode' = Exited(1)
            /\ pc' = "exited"
       ELSE /\ pc' = "generate"
            /\ UNCHANGED <<stderr, exitCode>>
    /\ UNCHANGED <<flags, calls, outFile>>
    /\ UNCHANGED <<dVars, pVars, gVars, mVars>>

\* code, err := generator.Generate(*pkg, cfg)
GenerateStep ==
    /\ pc = "generate"
    /\ calls' = Append(calls, "Generate")
    /\ gPkg' = flags.pkg
    /\ gCfg' = ret.cfg
    /\ \E order \in Perms(DOMAIN ret.cfg.Policies) :
         gOut' = Generate(flags.pkg, ret.cfg, order)
    /\ IF gOut'.err # ""
       THEN /\ stderr' = Append(stderr, "generate code: " \o gOut'.err)
            /\ exitCode' = Exited(1)
            /\ pc' = "exited"
       ELSE /\ pc' = "write"
            /\ UNCHANGED <<stderr, exitCode>>
    /\ UNCHANGED <<flags, outFile>>
    /\ UNCHANGED <<dVars, pVars, mVars>>

\* os.WriteFile(*out, code, 0o644): it succeeds, or it fails having created
\* or truncated the file or not, or having written part of the code
WriteStep ==
    /\ pc = "write"
    /\ calls' = Append(calls, "WriteFile")
    /\ \/ /\ outFile' = FileWith(gOut.code)
          /\ exitCode' = Exited(0)
          /\ UNCHANGED stderr
       \/ /\ outFile' \in {outFile, FileWith(<<>>), FileWith(<<gOut.code[1]>>)}
          /\ stderr' = Append(stderr, "write output: i/o error")
          /\ exitCode' = Exited(1)
    /\ pc' = "exited"
    /\ UNCHANGED flags
    /\ UNCHANGED <<dVars, pVars, gVars, mVars>>

(***************************************************************************)
(* Inputs of main: the flags and the file at the -in path.  BasicDoc is    *)
(* testdata/basic.yaml as the parser test and the round-trip scenario      *)
(* describe it.                                                            *)
(***************************************************************************)
OnlyOp(m, sec) == PathItem([n \in YamlMethods |-> IF n = m THEN Operation(sec) ELSE NilOp])

BasicDoc ==
    [Security |-> NilSec,
     Paths |-> [p \in {"/public", "/user", "/admin", "/scoped"} |->
        CASE p = "/public" -> OnlyOp("get", NilSec)
          [] p = "/user" -> OnlyOp("get", SecOf(<<Requirement(TRUE, <<>>, FALSE, <<>>)>>))
          [] p = "/admin" -> OnlyOp("delete", SecOf(<<Requirement(TRUE, <<"role:admin">>, FALSE, <<>>)>>))
          [] p = "/scoped" -> OnlyOp("post", SecOf(<<Requirement(TRUE, <<"vegetable:write">>, FALSE, <<>>)>>))]]

MisconfiguredDoc ==
    [Security |-> NilSec,
     Paths |-> [p \in {"/public", "/admin"} |->
        IF p = "/public" THEN OnlyOp("get", NilSec) ELSE OnlyOp("delete", NoBearerSec)]]

CliFiles == {Unreadable, Malformed, FileOf(BasicDoc), FileOf(MisconfiguredDoc), FileOf(EmptyRoot)}

InitMain ==
    /\ flags \in [in : {"", "openapi.yaml"}, out : {"", "authpolicy.gen.go"}, pkg : PkgNames]
    /\ pc = "start"
    /\ calls = <<>>
    /\ stderr = <<>>
    /\ exitCode = NotExited
    /\ outFile = NoFile
    /\ file \in CliFiles
    /\ root = EmptyRoot
    /\ pathsLeft = {}
    /\ curPath = ""
    /\ opsLeft = {}
    /\ policies = <<>>
    /\ ret = Running("idle")

(***************************************************************************)
(* The policy middleware of the README, as internal/e2e copies it.         *)
(***************************************************************************)
StatusOK == 200
StatusUnauthorized == 401
StatusForbidden == 403

\* a nil *Claims
NilClaims == [isNil |-> TRUE, Roles |-> <<>>, Scopes |-> <<>>]

Claims(roles, scopes) == [isNil |-> FALSE, Roles |-> roles, Scopes |-> scopes]

\* hasAnyRole(claims, required...)
hasAnyRole(claims, required) ==
    \E i \in 1..Len(required) : \E j \in 1..Len(claims.Roles) : claims.Roles[j] = required[i]

\* faulty variant: one required scope is enough
hasAllScopes_Any(claims, required) ==
    \E i \in 1..Len(required) : \E j \in 1..Len(claims.Scopes) : claims.Scopes[j] = required[i]

\* hasAllScopes(claims, required...)
hasAllScopes(claims, required) ==
    \A i \in 1..Len(required) : \E j \in 1..Len(claims.Scopes) : claims.Scopes[j] = required[i]

\* next.ServeHTTP(w, r): the route's handler answers 200
PassToNext == [next |-> TRUE, code |-> StatusOK]

\* http.Error(w, ..., code)
Reject(code) == [next |-> FALSE, code |-> code]

\* the handler AuthPolicyMiddleware(next) returns, for one request
AuthPolicyMiddleware(pols, req) ==
    IF ~req.routeCtx THEN PassToNext
    ELSE LET key == RouteKey(req.Method, req.Path)
             ok == key \in DOMAIN pols
         IN  IF ~ok \/ ~pols[key].RequireAuth THEN PassToNext
             ELSE IF req.claims.isNil THEN Reject(StatusUnauthorized)
             ELSE IF Len(pols[key].Roles) > 0 /\ ~hasAnyRole(req.claims, pols[key].Roles)
                  THEN Reject(StatusForbidden)
             ELSE IF Len(pols[key].Scopes) > 0 /\ ~hasAllScopes(req.claims, pols[key].Scopes)
                  THEN Reject(StatusForbidden)
             ELSE PassToNext

\* var testPoliciesByPath
TestPoliciesByPath ==
    [k \in {RouteKey("GET", "/public"), RouteKey("GET", "/user"),
            RouteKey("DELETE", "/admin"), RouteKey("POST", "/scoped")} |->
        CASE k = RouteKey("GET", "/public") -> AuthPolicy(FALSE, <<>>, <<>>)
          [] k = RouteKey("GET", "/user") -> AuthPolicy(TRUE, <<>>, <<>>)
          [] k = RouteKey("DELETE", "/admin") -> AuthPolicy(TRUE, <<"admin">>, <<>>)
          [] k = RouteKey("POST", "/scoped") -> AuthPolicy(TRUE, <<>>, <<"vegetable:write">>)]

(***************************************************************************)
(* Inputs of the middleware: the test's policy map, the empty map, and     *)
(* the maps with one policy of at most MaxItems roles and scopes for       *)
(* DELETE /admin; requests with and without a route context, without       *)
(* claims or with claims of at most MaxItems roles and scopes.             *)
(***************************************************************************)
RoleNames == {"admin", "user"}

ScopeNames == {"vegetable:write", "vegetable:read"}

MwPolicies ==
    {AuthPolicy(TRUE, r, sc) : r \in SeqsUpTo(RoleNames, MaxItems), sc \in SeqsUpTo(ScopeNames, MaxItems)}
    \cup {AuthPolicy(FALSE, <<>>, <<>>), AuthPolicy(FALSE, <<"admin">>, <<"vegetable:write">>)}

PolicyMaps ==
    {TestPoliciesByPath, <<>>}
    \cup {[k \in {RouteKey("DELETE", "/admin")} |-> p] : p \in MwPolicies}

RequestKeys == {RouteKey("DELETE", "/admin"), RouteKey("POST", "/scoped"), RouteKey("GET", "/admin")}

Requests ==
    {[Method |-> k.Method, Path |-> k.Path, routeCtx |-> rc, claims |-> c] :
        k \in RequestKeys, rc \in BOOLEAN,
        c \in {NilClaims} \cup {Claims(r, sc) : r \in SeqsUpTo(RoleNames, MaxItems),
                                               sc \in SeqsUpTo(ScopeNames, MaxItems)}}

InitMiddleware ==
    /\ mwPolicies \in PolicyMaps
    /\ request = None
    /\ response = None

\* the router serves one request through the middleware; the handler keeps
\* no state, so one request per behaviour shows all it does
ServeHTTP ==
    /\ request = None
    /\ \E req \in Requests :
         /\ request' = req
         /\ response' = AuthPolicyMiddleware(mwPolicies, req)
    /\ UNCHANGED mwPolicies

(***************************************************************************)
(* The parts of the state a specification does not use.                    *)
(***************************************************************************)
IdleDerive == dRoot = NilSec /\ dOp = NilSec /\ dRes = None

IdleParse ==
    /\ file = Unreadable
    /\ root = EmptyRoot
    /\ pathsLeft = {}
    /\ curPath = ""
    /\ opsLeft = {}
    /\ policies = <<>>
    /\ ret = Running("idle")

IdleMain ==
    /\ flags = [in |-> "", out |-> "", pkg |-> ""]
    /\ pc = "idle"
    /\ calls = <<>>
    /\ stderr = <<>>
    /\ exitCode = NotExited
    /\ outFile = NoFile

IdleGenerate == gCfg = NilConfig /\ gPkg = "" /\ gOut = None

IdleMiddleware == mwPolicies = <<>> /\ request = None /\ response = None

(***************************************************************************)
(* derivePolicy alone.                                                     *)
(***************************************************************************)
NextDerive == Derive /\ UNCHANGED <<pVars, cVars, gVars, mVars>>

InitDeriveAlone == InitDerive /\ IdleParse /\ IdleMain /\ IdleGenerate /\ IdleMiddleware

SpecDerive == InitDeriveAlone /\ [][NextDerive]_vars

(***************************************************************************)
(* ParseConfig alone.                                                      *)
(***************************************************************************)
InitParse ==
    /\ \/ file \in {Unreadable, Malformed}
       \/ \E S \in SlotSets, rs \in DocRootSecs :
             \E f \in [S -> DocOpSecs], e \in [PathNames \ PathsOf(S) -> {"missing", "null", "empty"}] :
               file = FileOf(Document(rs, S, f, e))
    /\ root = EmptyRoot
    /\ pathsLeft = {}
    /\ curPath = ""
    /\ opsLeft = {}
    /\ policies = <<>>
    /\ ret = Running("start")

NextParse ==
    \/ ReadAndUnmarshal /\ UNCHANGED <<dVars, cVars, gVars, mVars>>
    \/ NextPath /\ UNCHANGED <<dVars, cVars, gVars, mVars>>
    \/ VisitOp /\ UNCHANGED <<dVars, cVars, gVars, mVars>>
    \/ ParseReturn /\ UNCHANGED <<dVars, cVars, gVars, mVars>>

InitParseAlone == InitParse /\ IdleDerive /\ IdleMain /\ IdleGenerate /\ IdleMiddleware

SpecParse == InitParseAlone /\ [][NextParse]_vars

(***************************************************************************)
(* Generate alone.                                                         *)
(***************************************************************************)
NextGenerate == GenerateCall /\ UNCHANGED <<dVars, pVars, cVars, mVars>>

InitGenerateAlone == InitGenerate /\ IdleDerive /\ IdleParse /\ IdleMain /\ IdleMiddleware

SpecGenerate == InitGenerateAlone /\ [][NextGenerate]_vars

(***************************************************************************)
(* One run of the command line tool.                                       *)
(***************************************************************************)
Init == InitMain /\ IdleDerive /\ IdleGenerate /\ IdleMiddleware

Next ==
    \/ FlagCheck
    \/ ReadAndUnmarshal /\ UNCHANGED <<dVars, cVars, gVars, mVars>>
    \/ NextPath /\ UNCHANGED <<dVars, cVars, gVars, mVars>>
    \/ VisitOp /\ UNCHANGED <<dVars, cVars, gVars, mVars>>
    \/ ParseReturn /\ UNCHANGED <<dVars, cVars, gVars, mVars>>
    \/ ParseDone
    \/ GenerateStep
    \/ WriteStep

Spec == Init /\ [][Next]_vars

(***************************************************************************)
(* The middleware alone.                                                   *)
(***************************************************************************)
NextMiddleware == ServeHTTP /\ UNCHANGED <<dVars, pVars, cVars, gVars>>

InitMiddlewareAlone == InitMiddleware /\ IdleDerive /\ IdleParse /\ IdleMain /\ IdleGenerate

SpecMiddleware == InitMiddlewareAlone /\ [][NextMiddleware]_vars

(***************************************************************************)
(* What the claims speak of, stated apart from the code's own definitions. *)
(***************************************************************************)
\* the effective security list: the operation's own if present, else the root's
ClaimedEffective(rootSec, opSec) == IF ~opSec.isNil THEN opSec ELSE rootSec

NamesBearer(sec) == \E i \in 1..Len(sec.items) : BearerAuth \in DOMAIN sec.items[i]

\* a non-empty effective list without a BearerAuth entry
Misconfigured(rootSec, opSec) ==
    LET eff == ClaimedEffective(rootSec, opSec) IN
    ~eff.isNil /\ Len(eff.items) > 0 /\ ~NamesBearer(eff)

\* the token list of the first requirement object that names BearerAuth
MatchedTokens(sec) ==
    LET i == CHOOSE k \in 1..Len(sec.items) :
                 /\ BearerAuth \in DOMAIN sec.items[k]
                 /\ \A j \in 1..(k - 1) : BearerAuth \notin DOMAIN sec.items[j]
    IN  sec.items[i][BearerAuth]

IsPublicResult(res) ==
    res.err = "" /\ ~res.policy.RequireAuth /\ res.policy.Roles = <<>> /\ res.policy.Scopes = <<>>

UpperMethod ==
    [get |-> "GET", post |-> "POST", put |-> "PUT", delete |-> "DELETE",
     patch |-> "PATCH", options |-> "OPTIONS", head |-> "HEAD"]

\* the operations a document declares: (path, yaml method key)
DeclaredOps(doc) ==
    {slot \in (DOMAIN doc.Paths) \X YamlMethods :
        ~doc.Paths[slot[1]].isNil /\ ~doc.Paths[slot[1]].ops[slot[2]].isNil}

DeclaredKeys(doc) == {RouteKey(UpperMethod[slot[2]], slot[1]) : slot \in DeclaredOps(doc)}

OpSecurity(doc, slot) == doc.Paths[slot[1]].ops[slot[2]].Security

MisconfiguredKeys(doc) ==
    {RouteKey(UpperMethod[slot[2]], slot[1]) :
        slot \in {t \in DeclaredOps(doc) : Misconfigured(doc.Security, OpSecurity(doc, t))}}

Returned == ret.status \in {"ok", "err"}

(***************************************************************************)
(* C1 (SpecParse): for an operation whose effective security list is       *)
(* non-empty and names no BearerAuth, derivePolicy returns an error and    *)
(* never a public policy, and ParseConfig then fails with an error that    *)
(* names the method and path of such an operation.                         *)
(***************************************************************************)
C1_MisconfigurationFails ==
    (file.readable /\ file.wellFormed) =>
        /\ \A slot \in DeclaredOps(file.root) :
               Misconfigured(file.root.Security, OpSecurity(file.root, slot)) =>
                   \A r \in DeriveResults(file.root.Security, OpSecurity(file.root, slot)) :
                       r.err # ""
        /\ (Returned /\ MisconfiguredKeys(file.root) # {}) =>
               /\ ret.status = "err"
               /\ ret.err.msg = "derive policy for"
               /\ RouteKey(ret.err.method, ret.err.path) \in MisconfiguredKeys(file.root)

C1_Witness ==
    /\ ret.status = "err"
    /\ ret.err.method = "PUT"
    /\ ret.err.path = "/b"
    /\ file.root.Security = NilSec
    /\ Cardinality(DeclaredOps(file.root)) = 2

(***************************************************************************)
(* C2 (SpecDerive): an operation resolves to the public policy exactly     *)
(* when its effective security list is absent or present-but-empty; an     *)
(* operation with `security: []` is public whatever the root list is.      *)
(***************************************************************************)
C2_PublicExactlyWhenAbsentOrEmpty ==
    dRes # None =>
        LET eff == ClaimedEffective(dRoot, dOp) IN
        /\ (eff.isNil \/ Len(eff.items) = 0) => IsPublicResult(dRes)
        /\ ~(eff.isNil \/ Len(eff.items) = 0) => ~(dRes.err = "" /\ ~dRes.policy.RequireAuth)
        /\ (~dOp.isNil /\ Len(dOp.items) = 0) => IsPublicResult(dRes)

C2_Witness ==
    /\ dRes # None
    /\ dOp = SecOf(<<>>)
    /\ Len(dRoot.items) > 0
    /\ ~NamesBearer(dRoot)
    /\ IsPublicResult(dRes)

(***************************************************************************)
(* C3 (SpecDerive): when the operation declares its own security list the  *)
(* result of derivePolicy is the same for every root security list.        *)
(***************************************************************************)
RootSamples == {NilSec, SecOf(<<>>), BearerSec, NoBearerSec}

C3_OperationListOverridesRoot ==
    (dRes # None /\ ~dOp.isNil) =>
        \A other \in RootSamples : DeriveResults(other, dOp) = {dRes}

C3_Witness ==
    /\ dRes # None
    /\ dOp = SecOf(<<Requirement(TRUE, <<"role:admin", "w">>, TRUE, <<"role:other", "x">>)>>)
    /\ dRoot = SecOf(<<Requirement(FALSE, <<>>, TRUE, <<"role:other", "x">>)>>)
    /\ dRes.err = ""
    /\ dRes.policy.Roles = <<"admin">>

(***************************************************************************)
(* C4, as claimed (SpecDerive): every token of the matched BearerAuth list *)
(* that carries the prefix "role:" goes to roles with the prefix stripped, *)
(* every other token goes verbatim to scopes, in order, duplicates kept.   *)
(***************************************************************************)
CarriesRolePrefix(s) == Len(s) >= 5 /\ SubSeq(s, 1, 5) = "role:"

LacksRolePrefix(s) == ~CarriesRolePrefix(s)

StripPrefix(tokens) == [i \in 1..Len(tokens) |-> SubSeq(tokens[i], 6, Len(tokens[i]))]

Matched == dRes # None /\ dRes.err = "" /\ NamesBearer(ClaimedEffective(dRoot, dOp))

NamesARole(s) == Len(s) > 5 /\ SubSeq(s, 1, 5) = "role:"

NamesNoRole(s) == ~NamesARole(s)

C5_OneKeyPerDeclaredOperation ==
    ret.status = "ok" =>
        /\ DOMAIN ret.cfg.Policies = DeclaredKeys(file.root)
        /\ Cardinality(DOMAIN ret.cfg.Policies) = Cardinality(DeclaredOps(file.root))

C5_Witness ==
    /\ ret.status = "ok"
    /\ DOMAIN ret.cfg.Policies = {RouteKey("PUT", "/a"), RouteKey("POST", "/a")}
    /\ "/b" \in DOMAIN file.root.Paths
    /\ file.root.Paths["/b"].isNil

(***************************************************************************)
(* C6 (SpecParse): ParseConfig is all-or-nothing: an error comes with no   *)
(* Config at all, and a Config is returned only when the file was read and *)
(* parsed and every declared operation resolves without error.             *)
(***************************************************************************)
C6_AllOrNothing ==
    /\ ret.status = "err" => (ret.cfg.isNil /\ ret.err # NoError)
    /\ ret.status = "ok" =>
           /\ ~ret.cfg.isNil
           /\ ret.err = NoError
           /\ file.readable /\ file.wellFormed
           /\ \A slot \in DeclaredOps(file.root) :
                  \A r \in DeriveResults(file.root.Security, OpSecurity(file.root, slot)) :
                      r.err = ""

C6_Witness ==
    /\ ret.status = "err"
    /\ ret.cfg.isNil
    /\ policies # <<>>
    /\ pathsLeft = {}

(***************************************************************************)
(* C7 (SpecDerive): in every AuthPolicy the resolver produces, if          *)
(* RequireAuth is false then roles and scopes are both empty.              *)
(***************************************************************************)
C7_NoRolesOrScopesWithoutAuth ==
    dRes # None =>
        (~dRes.policy.RequireAuth => (dRes.policy.Roles = <<>> /\ dRes.policy.Scopes = <<>>))

C7_Witness ==
    /\ dRes # None
    /\ dRes.err = ""
    /\ dRes.policy.RequireAuth
    /\ dRes.policy.Roles # <<>>
    /\ dRes.policy.Scopes # <<>>

(***************************************************************************)
(* C8 (SpecGenerate): the serializer's output depends only on the Config's *)
(* contents, not on the order in which its keys are iterated: every        *)
(* iteration order yields the output already produced, and the emitted     *)
(* entries are ordered by method, then path, lexicographically.            *)
(***************************************************************************)
MethodThenPath(a, b) ==
    StrLess(a.Method, b.Method) \/ (a.Method = b.Method /\ StrLess(a.Path, b.Path))

InMethodThenPathOrder(ks) == \A i, j \in 1..Len(ks) : i < j => MethodThenPath(ks[i], ks[j])

IsPrefix(a, b) == Len(a) <= Len(b) /\ SubSeq(b, 1, Len(a)) = a

FlagMissing == flags.in = "" \/ flags.out = ""

GenerateFailed == gOut # None /\ gOut.err # ""

Wrote == "WriteFile" \in Range(calls)

C9_StepsInOrderAndNoOutputOnFailure ==
    /\ IsPrefix(calls, <<"ParseConfig", "Generate", "WriteFile">>)
    /\ FlagMissing =>
           /\ calls = <<>>
           /\ ret.status = "idle"
           /\ pc = "exited" => stderr = <<"-in and -out are required">>
    /\ "Generate" \in Range(calls) => ret.status = "ok"
    /\ Wrote => (~FlagMissing /\ ret.status = "ok" /\ gOut # None /\ gOut.err = "")
    /\ outFile.exists => Wrote
    /\ (pc = "exited" /\ (FlagMissing \/ ret.status = "err" \/ GenerateFailed)) =>
           /\ exitCode = Exited(1)
           /\ ~Wrote
           /\ ~outFile.exists
           /\ Len(stderr) = 1

C9_Witness ==
    /\ pc = "exited"
    /\ flags.in = ""
    /\ flags.out # ""
    /\ exitCode = Exited(1)
    /\ calls = <<>>

(***************************************************************************)
(* C10, as claimed (SpecMiddleware): for every request the middleware      *)
(* passes the request on if its key is absent from the policy map or its   *)
(* policy has RequireAuth=false; otherwise it responds 401 when no claims  *)
(* are present, 403 when roles is non-empty and the claims hold none of    *)
(* them or scopes is non-empty and the claims lack one of them, and passes *)
(* the request on only when the claims hold a listed role (if any) and all *)
(* listed scopes (if any).                                                 *)
(***************************************************************************)
HoldsARole(c, roles) == Range(c.Roles) \cap Range(roles) # {}

HoldsAllScopes(c, scopes) == Range(scopes) \subseteq Range(c.Scopes)

Decision(pols, req) ==
    LET key == [Method |-> req.Method, Path |-> req.Path] IN
    IF key \notin DOMAIN pols \/ ~pols[key].RequireAuth THEN "next"
    ELSE IF req.claims.isNil THEN "401"
    ELSE IF \/ (pols[key].Roles # <<>> /\ ~HoldsARole(req.claims, pols[key].Roles))
            \/ (pols[key].Scopes # <<>> /\ ~HoldsAllScopes(req.claims, pols[key].Scopes))
         THEN "403"
    ELSE "next"

Answered(what) ==
    CASE what = "next" -> response.next
      [] what = "401" -> ~response.next /\ response.code = 401
      [] what = "403" -> ~response.next /\ response.code = 403

C10_Original == response # None => Answered(Decision(mwPolicies, request))

(***************************************************************************)
(* C10, amended (SpecMiddleware): the claim holds for every request that   *)
(* carries a chi route context; a request without one is passed to the     *)
(* next handler whatever the policy map and the claims are.                *)
(***************************************************************************)
C10_DecisionWithRouteContext ==
    response # None =>
        IF request.routeCtx
        THEN Answered(Decision(mwPolicies, request))
        ELSE response.next

C10_Witness ==
    /\ response # None
    /\ request.routeCtx
    /\ DOMAIN mwPolicies = {RouteKey("DELETE", "/admin")}
    /\ mwPolicies[RouteKey("DELETE", "/admin")] =
           AuthPolicy(TRUE, <<"user", "admin">>, <<"vegetable:write", "vegetable:read">>)
    /\ request.Method = "DELETE"
    /\ request.Path = "/admin"
    /\ request.claims = Claims(<<"admin">>, <<"vegetable:read", "vegetable:write">>)
    /\ response.next

(***************************************************************************)
(* C11 (SpecDerive): when the effective security list names BearerAuth,    *)
(* the policy is RequireAuth=true with roles and scopes taken only from    *)
(* the token list of the first requirement object that has a BearerAuth    *)
(* entry: later requirement objects and other scheme names contribute      *)
(* nothing, and every order of visiting the scheme names inside the        *)
(* requirement objects gives the same result.                              *)
(***************************************************************************)
\* the security list that holds nothing but the first BearerAuth token list
FirstBearerOnly(sec) == SecOf(<<Requirement(TRUE, MatchedTokens(sec), FALSE, <<>>)>>)

C11_FirstBearerRequirementDecides ==
    (dRes # None /\ NamesBearer(ClaimedEffective(dRoot, dOp))) =>
        LET eff == ClaimedEffective(dRoot, dOp)
            tokens == MatchedTokens(eff)
        IN  /\ dRes.err = ""
            /\ dRes.policy.RequireAuth
            /\ Range(dRes.policy.Scopes) \subseteq Range(tokens)
            /\ \A role \in Range(dRes.policy.Roles) : ("role:" \o role) \in Range(tokens)
            /\ Len(dRes.policy.Roles) + Len(dRes.policy.Scopes) = Len(tokens)
            /\ dRes \in DeriveResults(NilSec, FirstBearerOnly(eff))
            /\ \A ord \in VisitOrders(eff) : derivePolicy(dRoot, dOp, ord) = dRes

C11_Witness ==
    /\ dRes # None
    /\ dOp = SecOf(<<Requirement(FALSE, <<>>, TRUE, <<"role:other", "x">>),
                     Requirement(TRUE, <<>>, TRUE, <<"role:other", "x">>)>>)
    /\ dRoot = SecOf(<<Requirement(TRUE, <<"role:admin", "w">>, FALSE, <<>>)>>)
    /\ dRes = [policy |-> AuthPolicy(TRUE, <<>>, <<>>), err |-> ""]

(***************************************************************************)
(* C12 (SpecDerive): no resolved policy contains an empty role name.  A    *)
(* token is a role only when it is strictly longer than the 5-character    *)
(* prefix "role:", so the bare token "role:" is appended unchanged to      *)
(* scopes, once for each time it occurs, and never appended to roles as    *)
(* the empty string.                                                       *)
(***************************************************************************)
IsBarePrefix(s) == s = RolePrefix

====
